---- MODULE Spec2Model ----
(***************************************************************************)
(* Model of the gnark FFI backend: buildR1CS (the raw-circuit compiler),   *)
(* buildWitnesses (the producer goroutine / witness.Fill handoff), the    *)
(* prove/verify flow of main and the exported entry points.  Two revisions *)
(* of main.go are in the repository; the variable build says which one a   *)
(* behaviour runs.                                                         *)
(***************************************************************************)
EXTENDS Integers, Sequences, FiniteSets, TLC

\* ---------------------------------------------------------------- bounds
MaxValues == 2
MaxPublicInputs == 2
MaxGates == 1
MaxTerms == 1
MaxCalls == 3
\* Field elements: the compiler and the assembler only copy and compare them, so
\* the two elements of the smallest field stand for all of them.
Felt == {0, 1}
Modulus == Cardinality(Felt)
Coefficients == Felt \ {0}
\* 0-based indices a gate may carry; MaxValues is out of range for every vector.
Indices == 0..MaxValues
\* 1-based positions a public_inputs entry may carry; MaxValues + 1 matches no value.
Positions == 1..(MaxValues + 1)
NumConstraintsValues == {0, 11}
Builds == {"gnark_backend_ffi", "part_000"}
Assemblies == 1..2

SeqsUpTo(S, n) == UNION {[1..k -> S] : k \in 0..n}

MulTerm == [coefficient : Coefficients, multiplicand : Indices, multiplier : Indices]
AddTerm == [coefficient : Coefficients, sum : Indices]
RawGate ==
  [mulTerms : SeqsUpTo(MulTerm, MaxTerms), addTerms : SeqsUpTo(AddTerm, MaxTerms),
   constantTerm : Felt]
\* The circuits with a gate list of gateLists and a numConstraints of declared.
Circuits(gateLists, declared) ==
  [gates : gateLists,
   publicInputs : SeqsUpTo(Positions, MaxPublicInputs),
   values : SeqsUpTo(Felt, MaxValues),
   numConstraints : declared]
RawR1CS == Circuits(SeqsUpTo(RawGate, MaxGates), NumConstraintsValues)

\* ----------------------------------------------------------------- state
VARIABLES
  build,                \* which revision of main.go runs
  r,                    \* the decoded structs.RawR1CS
  pc,                   \* buildR1CS: "alloc", "gates", "returned", "panicked"
  i,                    \* number of values the allocation loop has visited
  g,                    \* number of gates the gate loop has finished
  r1cs,                 \* the constraint system under construction
  allVariableIndices,
  publicVariables,
  privateVariables,
  nPublicVariables,
  nPrivateVariables,
  ONE,
  ZERO,
  panicAt,              \* where a run-time index panic stopped buildR1CS
  asm,                  \* per buildWitnesses call: channel, producer, consumer
  m,                    \* main: its position and its locals
  ep                    \* the exported entry point that runs: its position and its locals

vars ==
  <<build, r, pc, i, g, r1cs, allVariableIndices, publicVariables, privateVariables,
    nPublicVariables, nPrivateVariables, ONE, ZERO, panicAt, asm, m, ep>>

compileVars ==
  <<pc, i, g, r1cs, allVariableIndices, publicVariables, privateVariables,
    nPublicVariables, nPrivateVariables, ONE, ZERO, panicAt>>

\* ------------------------------------------------- the constraint system
NoHandle == [kind |-> "none", idx |-> 0]
NoPanic == [gate |-> 0, term |-> 0, at |-> "none"]

NewR1CS == [Public |-> <<>>, Secret |-> <<>>, NbInternalVariables |-> 0, Constraints |-> <<>>]

\* A variable handle says which list of the system the variable was added to and
\* its place in that list.
AddPublicVariable(cs, name) ==
  [cs |-> [cs EXCEPT !.Public = Append(@, name)],
   h |-> [kind |-> "public", idx |-> Len(cs.Public) + 1]]

AddSecretVariable(cs, name) ==
  [cs |-> [cs EXCEPT !.Secret = Append(@, name)],
   h |-> [kind |-> "secret", idx |-> Len(cs.Secret) + 1]]

AddInternalVariableAsSecret(cs) ==
  [cs |-> [cs EXCEPT !.Secret = Append(@, <<"", 0>>), !.NbInternalVariables = @ + 1],
   h |-> [kind |-> "internal", idx |-> cs.NbInternalVariables + 1]]
AddInternalVariable(cs) ==
  [cs |-> [cs EXCEPT !.NbInternalVariables = @ + 1],
   h |-> [kind |-> "internal", idx |-> cs.NbInternalVariables + 1]]

MakeTermUnitCoefficient(coefficient, variable) == [coeff |-> 1, var |-> variable]
MakeTerm(coefficient, variable) == [coeff |-> coefficient, var |-> variable]

AddConstraint(cs, r1c) == [cs EXCEPT !.Constraints = Append(@, r1c)]

\* ------------------------------------------- buildR1CS: variable allocation
\* uint32(i+1) == publicInput, idx being the 0-based index of the value.
IsPublicMatchOffByOne(idx, publicInput) == idx = publicInput
IsPublicMatch(idx, publicInput) == idx + 1 = publicInput

PublicName(b, idx) == IF b = "part_000" THEN <<"public", idx + 1>> ELSE <<"", idx>>
SecretName(b, idx) == IF b = "part_000" THEN <<"secret", idx + 1>> ELSE <<"", idx>>

\* One pass of the inner loop body: value idx against the j-th public input.
AllocBodyMatchOnly(b, raw, st, idx, j) ==
  IF idx + 1 = raw.publicInputs[j]
  THEN LET a == AddPublicVariable(st.cs, <<"", idx>>)
       IN [st EXCEPT !.cs = a.cs,
                     !.table = Append(@, a.h),
                     !.pub = Append(@, raw.values[idx + 1]),
                     !.nPub = @ + 1]
  ELSE st
AllocBody(b, raw, st, idx, j) ==
  IF IsPublicMatch(idx, raw.publicInputs[j])
  THEN LET a == AddPublicVariable(st.cs, PublicName(b, idx))
       IN [st EXCEPT !.cs = a.cs,
                     !.table = Append(@, a.h),
                     !.pub = Append(@, raw.values[idx + 1]),
                     !.nPub = @ + 1]
  ELSE LET a == AddSecretVariable(st.cs, SecretName(b, idx))
       IN [st EXCEPT !.cs = a.cs,
                     !.table = Append(@, a.h),
                     !.priv = Append(@, raw.values[idx + 1]),
                     !.nPriv = @ + 1]

\* The inner loop, for _, publicInput := range r.PublicInputs, from entry j on.
RECURSIVE InnerLoop(_, _, _, _, _)
InnerLoop(b, raw, st, idx, j) ==
  IF j > Len(raw.publicInputs) THEN st
  ELSE InnerLoop(b, raw, AllocBody(b, raw, st, idx, j), idx, j + 1)

AllocState ==
  [cs |-> r1cs, table |-> allVariableIndices, pub |-> publicVariables,
   priv |-> privateVariables, nPub |-> nPublicVariables, nPriv |-> nPrivateVariables]

\* The allocation loop as a function: iterations idx, idx + 1, ... of the outer
\* loop applied to st.
EmptyAllocState ==
  [cs |-> NewR1CS, table |-> <<>>, pub |-> <<>>, priv |-> <<>>, nPub |-> 0, nPriv |-> 0]

RECURSIVE AllocLoop(_, _, _, _)
AllocLoop(b, raw, st, idx) ==
  IF idx >= Len(raw.values) THEN st
  ELSE AllocLoop(b, raw, InnerLoop(b, raw, st, idx, 1), idx + 1)

\* One iteration of the outer loop, for i, value := range r.Values.
AllocValue ==
  /\ pc = "alloc"
  /\ i < Len(r.values)
  /\ LET st == InnerLoop(build, r, AllocState, i, 1)
     IN /\ r1cs' = st.cs
        /\ allVariableIndices' = st.table
        /\ publicVariables' = st.pub
        /\ privateVariables' = st.priv
        /\ nPublicVariables' = st.nPub
        /\ nPrivateVariables' = st.nPriv
  /\ i' = i + 1
  /\ UNCHANGED <<build, r, pc, g, ONE, ZERO, panicAt, asm, m, ep>>

\* The loop is over: ONE is added (and, in gnark_backend_ffi/main.go, ZERO).
BeginGates ==
  /\ pc = "alloc"
  /\ i = Len(r.values)
  /\ LET one == AddPublicVariable(r1cs, IF build = "part_000" THEN <<"1", 0>> ELSE <<"ONE", 0>>)
         zero == AddInternalVariable(one.cs)
     IN /\ ONE' = one.h
        /\ ZERO' = IF build = "part_000" THEN NoHandle ELSE zero.h
        /\ r1cs' = IF build = "part_000" THEN one.cs ELSE zero.cs
  /\ pc' = "gates"
  /\ UNCHANGED <<build, r, i, g, allVariableIndices, publicVariables, privateVariables,
                 nPublicVariables, nPrivateVariables, panicAt, asm, m, ep>>

\* ------------------------------------------------ buildR1CS: the gate loop
\* A Go slice index expression panics unless the (unsigned) index is below the length.
InRange(idx, n) == idx < n
\* r.Values[idx]
ValuesIndexInclusive(idx, n) == idx <= n
ValuesIndex(idx, n) == InRange(idx, n)
\* allVariableIndices[idx]
TableIndex(idx, n) == InRange(idx, n)

Panic(k, where) == [gate |-> 0, term |-> k, at |-> where]

\* for _, mul_term := range gate.MulTerms, from term k on.  The product of the two
\* values is computed into a local that nothing reads.
RECURSIVE MulLoop(_, _, _, _)
MulLoop(raw, acc, mulTerms, k) ==
  IF k > Len(mulTerms) \/ acc.panic.at # "none" THEN acc
  ELSE LET t == mulTerms[k]
           a == AddInternalVariable(acc.cs)
       IN IF ~ValuesIndex(t.multiplicand, Len(raw.values))
          THEN [acc EXCEPT !.panic = Panic(k, "r.Values[mul_term.Multiplicand]")]
          ELSE IF ~ValuesIndex(t.multiplier, Len(raw.values))
          THEN [acc EXCEPT !.panic = Panic(k, "r.Values[mul_term.Multiplier]")]
          ELSE MulLoop(raw,
                       [acc EXCEPT !.cs = a.cs,
                                   !.terms = Append(@, MakeTerm(t.coefficient, a.h))],
                       mulTerms, k + 1)

\* for _, add_term := range gate.AddTerms, from term k on.  part_000 first prints
\* r.Values[add_term.Sum]; both revisions then index allVariableIndices.
RECURSIVE AddLoop(_, _, _, _, _, _)
AddLoop(b, raw, table, acc, addTerms, k) ==
  IF k > Len(addTerms) \/ acc.panic.at # "none" THEN acc
  ELSE LET t == addTerms[k]
       IN IF b = "part_000" /\ ~ValuesIndex(t.sum, Len(raw.values))
          THEN [acc EXCEPT !.panic = Panic(k, "r.Values[add_term.Sum]")]
          ELSE IF ~TableIndex(t.sum, Len(table))
          THEN [acc EXCEPT !.panic = Panic(k, "allVariableIndices[sum]")]
          ELSE AddLoop(b, raw, table,
                       [acc EXCEPT !.terms = Append(@, MakeTerm(t.coefficient, table[t.sum + 1]))],
                       addTerms, k + 1)

\* The body of the gate loop up to the call of AddConstraint.
GateTermsWithConstant(b, raw, table, cs, gate) ==
  LET res == AddLoop(b, raw, table,
                     MulLoop(raw, [cs |-> cs, terms |-> <<>>, panic |-> NoPanic],
                             gate.mulTerms, 1),
                     gate.addTerms, 1)
  IN [res EXCEPT !.terms = Append(@, [coeff |-> gate.constantTerm, var |-> NoHandle])]
GateTerms(b, raw, table, cs, gate) ==
  AddLoop(b, raw, table,
          MulLoop(raw, [cs |-> cs, terms |-> <<>>, panic |-> NoPanic], gate.mulTerms, 1),
          gate.addTerms, 1)

COEFFICIENT_ONE == 1

GateConstraint(b, one, zero, terms) ==
  [L |-> <<MakeTerm(COEFFICIENT_ONE, one)>>,
   R |-> terms,
   O |-> IF b = "part_000" THEN <<>> ELSE <<MakeTerm(COEFFICIENT_ONE, zero)>>]

\* One iteration of for _, gate := range r.Gates: a constraint, or a panic.
ProcessGate ==
  /\ pc = "gates"
  /\ g < Len(r.gates)
  /\ LET res == GateTerms(build, r, allVariableIndices, r1cs, r.gates[g + 1])
     IN IF res.panic.at # "none"
        THEN /\ pc' = "panicked"
             /\ panicAt' = [res.panic EXCEPT !.gate = g + 1]
             /\ r1cs' = res.cs
             /\ g' = g
        ELSE /\ r1cs' = AddConstraint(res.cs, GateConstraint(build, ONE, ZERO, res.terms))
             /\ g' = g + 1
             /\ UNCHANGED <<pc, panicAt>>
  /\ UNCHANGED <<build, r, i, allVariableIndices, publicVariables, privateVariables,
                 nPublicVariables, nPrivateVariables, ONE, ZERO, asm, m, ep>>

Return ==
  /\ pc = "gates"
  /\ g = Len(r.gates)
  /\ pc' = "returned"
  /\ UNCHANGED <<build, r, i, g, r1cs, allVariableIndices, publicVariables, privateVariables,
                 nPublicVariables, nPrivateVariables, ONE, ZERO, panicAt, asm, m, ep>>

BuildR1CS == AllocValue \/ BeginGates \/ ProcessGate \/ Return

\* buildR1CS as a function.  The gate loop from gate k on, applied to st:
RECURSIVE GateLoop(_, _, _, _, _, _, _)
GateLoop(b, raw, table, one, zero, st, k) ==
  IF k > Len(raw.gates) \/ st.panic.at # "none" THEN st
  ELSE LET res == GateTerms(b, raw, table, st.cs, raw.gates[k])
       IN IF res.panic.at # "none"
          THEN [cs |-> res.cs, panic |-> [res.panic EXCEPT !.gate = k]]
          ELSE GateLoop(b, raw, table, one, zero,
                        [cs |-> AddConstraint(res.cs, GateConstraint(b, one, zero, res.terms)),
                         panic |-> NoPanic],
                        k + 1)

\* What a call leaves: the system, the two vectors, the two counts, and where it
\* panicked if it did.
BuildR1CSOf(b, raw) ==
  LET a == AllocLoop(b, raw, EmptyAllocState, 0)
      one == AddPublicVariable(a.cs, IF b = "part_000" THEN <<"1", 0>> ELSE <<"ONE", 0>>)
      zero == AddInternalVariable(one.cs)
      gates == GateLoop(b, raw, a.table, one.h,
                        IF b = "part_000" THEN NoHandle ELSE zero.h,
                        [cs |-> IF b = "part_000" THEN one.cs ELSE zero.cs, panic |-> NoPanic],
                        1)
  IN [cs |-> gates.cs, pub |-> a.pub, priv |-> a.priv, nPub |-> a.nPub, nPriv |-> a.nPriv,
      panic |-> gates.panic]

\* ---------------------------------------------------------- buildWitnesses
\* The k-th value the producer goroutine sends: the public vector, then the private one.
ProducerValuePrivateFirst(k) ==
  IF k <= Len(privateVariables) THEN privateVariables[k]
  ELSE publicVariables[k - Len(privateVariables)]
ProducerValue(k) ==
  IF k <= Len(publicVariables) THEN publicVariables[k]
  ELSE privateVariables[k - Len(publicVariables)]

ProducerTotal == Len(publicVariables) + Len(privateVariables)

IdleAssembly ==
  [state |-> "idle", consumer |-> "none", sent |-> 0, closed |-> FALSE, received |-> <<>>,
   witness |-> [vector |-> <<>>, nbPublic |-> 0, nbSecret |-> 0]]

\* witnessValues := make(chan any); go func() {...}()
StartAssembly(w) ==
  /\ pc = "returned"
  /\ asm[w].state = "idle"
  /\ asm' = [asm EXCEPT ![w].state = "running", ![w].consumer = "new"]
  /\ UNCHANGED <<build, r, compileVars, m, ep>>

\* witness.New succeeded; the caller enters witness.Fill and ranges over the channel.
EnterFill(w) ==
  /\ asm[w].state = "running"
  /\ asm[w].consumer = "new"
  /\ asm' = [asm EXCEPT ![w].consumer = "fill"]
  /\ UNCHANGED <<build, r, compileVars, m, ep>>

\* The channel is unbuffered: a send completes together with the receive of the
\* consumer c that ranges over the same channel.
Deliver(w, c) ==
  /\ asm[w].state = "running"
  /\ asm[w].sent < ProducerTotal
  /\ asm[c].state = "running"
  /\ asm[c].consumer = "fill"
  /\ asm' = [a \in Assemblies |->
               [asm[a] EXCEPT !.sent = IF a = w THEN @ + 1 ELSE @,
                              !.received = IF a = c THEN Append(@, ProducerValue(asm[w].sent + 1))
                                           ELSE @]]
  /\ UNCHANGED <<build, r, compileVars, m, ep>>

\* witnessValues <- v, on the channel of this call.
SendOnSharedChannel(w) == \E c \in Assemblies : Deliver(w, c)
Send(w) == Deliver(w, w)

\* Both loops are over: the deferred close(witnessValues) runs.
CloseOmitted(w) ==
  /\ asm[w].state = "running"
  /\ asm[w].sent = ProducerTotal
  /\ ~asm[w].closed
  /\ UNCHANGED vars
Close(w) ==
  /\ asm[w].state = "running"
  /\ asm[w].sent = ProducerTotal
  /\ ~asm[w].closed
  /\ asm' = [asm EXCEPT ![w].closed = TRUE]
  /\ UNCHANGED <<build, r, compileVars, m, ep>>

\* The range over the closed channel ends; Fill has stored the values in the order
\* received and the two counts it was given.
FillReturn(w) ==
  /\ asm[w].state = "running"
  /\ asm[w].consumer = "fill"
  /\ asm[w].closed
  /\ asm' = [asm EXCEPT ![w].state = "done",
                        ![w].consumer = "none",
                        ![w].witness = [vector |-> asm[w].received,
                                        nbPublic |-> nPublicVariables,
                                        nbSecret |-> nPrivateVariables]]
  /\ UNCHANGED <<build, r, compileVars, m, ep>>

BuildWitnesses(w) == StartAssembly(w) \/ EnterFill(w) \/ Send(w) \/ Close(w) \/ FillReturn(w)

\* witness.Public(): the first nbPublic entries of the vector.
PublicWholeVector(wit) == wit.vector
Public(wit) == SubSeq(wit.vector, 1, wit.nbPublic)
Secret(wit) == SubSeq(wit.vector, wit.nbPublic + 1, wit.nbPublic + wit.nbSecret)

\* ------------------------------------------------------ the groth16 backend
\* The backend is an external collaborator.  It is modelled by its contract: a
\* Setup yields a fresh key pair, a proof is bound to the proving key and to the
\* public part of the witness it was made from, and Verify accepts exactly the
\* proofs made under the matching key for the public witness it is given.
Setup(n) == [pk |-> [id |-> n], vk |-> [id |-> n]]
Prove(cs, pk, wit) == [key |-> pk.id, public |-> Public(wit)]
Verify(proof, vk, publicWitness) == proof.key = vk.id /\ proof.public = publicWitness

\* -------------------------------------------- main (gnark_backend_ffi/main.go)
NoKey == [id |-> 0]
NoProof == [key |-> 0, public |-> <<>>]

InitMain ==
  [pc |-> "idle", setups |-> 0, pk |-> NoKey, vk |-> NoKey, proof |-> NoProof,
   publicWitnesses |-> <<>>, verified |-> FALSE, validValues |-> <<>>,
   invalidPublicWitnesses |-> <<>>, invalidVerified |-> FALSE]

\* publicWitnesses, _ := witness.Public(), once buildR1CS and buildWitnesses returned.
MainPublic ==
  /\ m.pc = "run"
  /\ asm[1].state = "done"
  /\ m' = [m EXCEPT !.pc = "setup", !.publicWitnesses = Public(asm[1].witness)]
  /\ UNCHANGED <<build, r, compileVars, asm, ep>>

MainSetup ==
  /\ m.pc = "setup"
  /\ LET keys == Setup(m.setups + 1)
     IN m' = [m EXCEPT !.pc = "prove", !.setups = @ + 1, !.pk = keys.pk, !.vk = keys.vk]
  /\ UNCHANGED <<build, r, compileVars, asm, ep>>

MainProve ==
  /\ m.pc = "prove"
  /\ m' = [m EXCEPT !.pc = "verify", !.proof = Prove(r1cs, m.pk, asm[1].witness)]
  /\ UNCHANGED <<build, r, compileVars, asm, ep>>

MainVerify ==
  /\ m.pc = "verify"
  /\ m' = [m EXCEPT !.pc = "tamper",
                    !.verified = Verify(m.proof, m.vk, m.publicWitnesses)]
  /\ UNCHANGED <<build, r, compileVars, asm, ep>>

\* json.Unmarshal(invalidRawR1CS, &r): the same gates and public inputs with other
\* values; buildR1CS and buildWitnesses are then called on it.
MainTamper ==
  /\ m.pc = "tamper"
  /\ \E v \in [1..Len(r.values) -> Felt] : r' = [r EXCEPT !.values = v]
  /\ m' = [m EXCEPT !.pc = "run2", !.validValues = r.values]
  /\ pc' = "alloc"
  /\ i' = 0
  /\ g' = 0
  /\ r1cs' = NewR1CS
  /\ allVariableIndices' = <<>>
  /\ publicVariables' = <<>>
  /\ privateVariables' = <<>>
  /\ nPublicVariables' = 0
  /\ nPrivateVariables' = 0
  /\ ONE' = NoHandle
  /\ ZERO' = NoHandle
  /\ panicAt' = NoPanic
  /\ asm' = [w \in Assemblies |-> IdleAssembly]
  /\ UNCHANGED <<build, ep>>

\* invalidPublicWitnesses, _ := invalidWitness.Public()
MainInvalidPublic ==
  /\ m.pc = "run2"
  /\ asm[1].state = "done"
  /\ m' = [m EXCEPT !.pc = "invalidVerify",
                    !.invalidPublicWitnesses = Public(asm[1].witness)]
  /\ UNCHANGED <<build, r, compileVars, asm, ep>>

\* invalidVerified := groth16.Verify(proof, vk, invalidPublicWitnesses)
MainInvalidVerify ==
  /\ m.pc = "invalidVerify"
  /\ m' = [m EXCEPT !.pc = "done",
                    !.invalidVerified = Verify(m.proof, m.vk, m.invalidPublicWitnesses)]
  /\ UNCHANGED <<build, r, compileVars, asm, ep>>

Main ==
  \/ MainPublic \/ MainSetup \/ MainProve \/ MainVerify
  \/ MainTamper \/ MainInvalidPublic \/ MainInvalidVerify

\* ------------------------------------------------- the exported entry points
EntryPoints == {"ProveWithMeta", "ProveWithPK", "VerifyWithMeta", "VerifyWithVK", "Preprocess"}
Provers == {"ProveWithMeta", "ProveWithPK"}
Verifiers == {"VerifyWithMeta", "VerifyWithVK"}

\* The keys callers hold come from Setup invocations made before the call.
EarlierKeys == {[id |-> 1], [id |-> 2]}
\* The proofs callers hold: made under one of those keys for some public witness.
EarlierProofs == [key : {k.id : k \in EarlierKeys}, public : SeqsUpTo(Felt, MaxPublicInputs)]

\* A string argument of an entry point: hex text or the raw bytes of a backend
\* serialization, of an object or of nothing the backend can read.
Arguments(objects, none) ==
  [enc : {"hex", "raw"}, valid : {TRUE}, val : objects]
    \cup [enc : {"hex", "raw"}, valid : {FALSE}, val : {none}]
NoArgument(none) == [enc |-> "none", valid |-> FALSE, val |-> none]

\* part_000 hex-decodes the argument first; gnark_backend_ffi/main.go hands its bytes
\* to ReadFrom as they are.
HexDecodeSkipped(b, arg) == FALSE
HexDecodeFails(b, arg) == b = "part_000" /\ arg.enc # "hex"
ReadFromFails(b, arg) == ~arg.valid \/ (b = "gnark_backend_ffi" /\ arg.enc = "hex")
DecodeFails(b, arg) == HexDecodeFails(b, arg) \/ ReadFromFails(b, arg)

\* WriteTo, then hex.EncodeToString (part_000) or String() (gnark_backend_ffi/main.go).
Serialize(b, object) ==
  [enc |-> IF b = "part_000" THEN "hex" ELSE "raw", valid |-> TRUE, val |-> object]

IdleEntry ==
  [name |-> "none", pc |-> "idle", setups |-> 0, calls |-> <<>>,
   proofArg |-> NoArgument(NoProof), keyArg |-> NoArgument(NoKey),
   proof |-> NoProof, pk |-> NoKey, vk |-> NoKey, publicInputs |-> <<>>,
   result |-> "none", out |-> <<>>,
   call |-> 0, entrySetups |-> 0, proofs |-> {}, keys |-> {}]

\* The entry point name has decoded its rawR1CS and calls buildR1CS.
EnteredEntry(name) ==
  [IdleEntry EXCEPT !.name = name, !.pc = "compile", !.call = 1,
                    !.setups = Cardinality(EarlierKeys),
                    !.entrySetups = Cardinality(EarlierKeys),
                    !.proofs = EarlierProofs, !.keys = EarlierKeys]

\* buildR1CS and, but for Preprocess, buildWitnesses have returned.
AssembledBeforeCompile == ep.pc = "compile"
Assembled ==
  /\ ep.pc = "compile"
  /\ IF ep.name = "Preprocess" THEN pc = "returned" ELSE asm[1].state = "done"

\* An index panic of buildR1CS ends the process.
EntryPanic ==
  /\ ep.pc = "compile"
  /\ pc = "panicked"
  /\ ep' = [ep EXCEPT !.pc = "aborted"]
  /\ UNCHANGED <<build, r, compileVars, asm, m>>

\* Deserialize proof: log.Fatal when the argument cannot be decoded.
EntryReadProof ==
  /\ ep.name \in Verifiers
  /\ Assembled
  /\ \E arg \in Arguments(ep.proofs, NoProof) :
       ep' = [ep EXCEPT !.calls = Append(@, "ReadProof"),
                        !.proofArg = arg,
                        !.proof = IF DecodeFails(build, arg) THEN @ ELSE arg.val,
                        !.pc = IF DecodeFails(build, arg) THEN "aborted"
                               ELSE IF ep.name = "VerifyWithMeta" THEN "setup" ELSE "readKey"]
  /\ UNCHANGED <<build, r, compileVars, asm, m>>

\* Deserialize proving key (ProveWithPK) or verifying key (VerifyWithVK).
EntryReadKey ==
  /\ \/ ep.name = "ProveWithPK" /\ Assembled
     \/ ep.name = "VerifyWithVK" /\ ep.pc = "readKey"
  /\ \E arg \in Arguments(ep.keys, NoKey) :
       ep' = [ep EXCEPT !.calls = Append(@, "ReadKey"),
                        !.keyArg = arg,
                        !.pk = IF ep.name = "ProveWithPK" /\ ~DecodeFails(build, arg)
                               THEN arg.val ELSE @,
                        !.vk = IF ep.name = "VerifyWithVK" /\ ~DecodeFails(build, arg)
                               THEN arg.val ELSE @,
                        !.pc = IF DecodeFails(build, arg) THEN "aborted"
                               ELSE IF ep.name = "ProveWithPK" THEN "prove" ELSE "public"]
  /\ UNCHANGED <<build, r, compileVars, asm, m>>

\* groth16.Setup(r1cs): ProveWithMeta keeps the proving key, VerifyWithMeta the
\* verifying key, Preprocess both; log.Fatal when the backend reports an error.
EntrySetupCached ==
  /\ \/ ep.name \in {"ProveWithMeta", "Preprocess"} /\ Assembled
     \/ ep.name = "VerifyWithMeta" /\ ep.pc = "setup"
  /\ \E ok \in BOOLEAN :
       LET keys == Setup(IF ep.name = "VerifyWithMeta" THEN ep.proof.key ELSE ep.setups + 1)
       IN ep' = [ep EXCEPT !.calls = Append(@, "Setup"),
                           !.setups = @ + 1,
                           !.pk = IF ok /\ ep.name # "VerifyWithMeta" THEN keys.pk ELSE @,
                           !.vk = IF ok /\ ep.name # "ProveWithMeta" THEN keys.vk ELSE @,
                           !.pc = IF ~ok THEN "aborted"
                                  ELSE IF ep.name = "ProveWithMeta" THEN "prove"
                                  ELSE IF ep.name = "VerifyWithMeta" THEN "public"
                                  ELSE "writeKeys"]
  /\ UNCHANGED <<build, r, compileVars, asm, m>>
EntrySetup ==
  /\ \/ ep.name \in {"ProveWithMeta", "Preprocess"} /\ Assembled
     \/ ep.name = "VerifyWithMeta" /\ ep.pc = "setup"
  /\ \E ok \in BOOLEAN :
       LET keys == Setup(ep.setups + 1)
       IN ep' = [ep EXCEPT !.calls = Append(@, "Setup"),
                           !.setups = @ + 1,
                           !.pk = IF ok /\ ep.name # "VerifyWithMeta" THEN keys.pk ELSE @,
                           !.vk = IF ok /\ ep.name # "ProveWithMeta" THEN keys.vk ELSE @,
                           !.pc = IF ~ok THEN "aborted"
                                  ELSE IF ep.name = "ProveWithMeta" THEN "prove"
                                  ELSE IF ep.name = "VerifyWithMeta" THEN "public"
                                  ELSE "writeKeys"]
  /\ UNCHANGED <<build, r, compileVars, asm, m>>

\* groth16.Prove(r1cs, provingKey, witness): log.Fatal when the backend reports an error.
EntryProve ==
  /\ ep.name \in Provers
  /\ ep.pc = "prove"
  /\ \E ok \in BOOLEAN :
       ep' = [ep EXCEPT !.calls = Append(@, "Prove"),
                        !.proof = IF ok THEN Prove(r1cs, ep.pk, asm[1].witness) ELSE @,
                        !.pc = IF ok THEN "writeProof" ELSE "aborted"]
  /\ UNCHANGED <<build, r, compileVars, asm, m>>

\* Serialize proof and return it.
EntryWriteProof ==
  /\ ep.pc = "writeProof"
  /\ ep' = [ep EXCEPT !.calls = Append(@, "WriteProof"),
                      !.out = <<Serialize(build, ep.proof)>>,
                      !.result = "proof",
                      !.pc = "returned"]
  /\ UNCHANGED <<build, r, compileVars, asm, m>>

\* Serialize proving key, serialize verifying key, return both.
EntryWriteKeys ==
  /\ ep.pc = "writeKeys"
  /\ ep' = [ep EXCEPT !.calls = Append(@, "WriteKeys"),
                      !.out = <<Serialize(build, ep.pk), Serialize(build, ep.vk)>>,
                      !.result = "keys",
                      !.pc = "returned"]
  /\ UNCHANGED <<build, r, compileVars, asm, m>>

\* publicInputs, err := witness.Public()
EntryPublic ==
  /\ ep.pc = "public"
  /\ ep' = [ep EXCEPT !.calls = Append(@, "Public"),
                      !.publicInputs = Public(asm[1].witness),
                      !.pc = "verify"]
  /\ UNCHANGED <<build, r, compileVars, asm, m>>

\* if groth16.Verify(proof, vk, publicInputs) != nil { return false }; return true
EntryVerify ==
  /\ ep.pc = "verify"
  /\ ep' = [ep EXCEPT !.calls = Append(@, "Verify"),
                      !.result = IF Verify(ep.proof, ep.vk, ep.publicInputs)
                                 THEN "true" ELSE "false",
                      !.pc = "returned"]
  /\ UNCHANGED <<build, r, compileVars, asm, m>>

\* The entry point returned; the caller, who now also holds what it returned,
\* calls entry point name on the same circuit.
NextCall(name) ==
  /\ ep.pc = "returned"
  /\ ep.call < MaxCalls
  /\ ep' = [IdleEntry EXCEPT
              !.name = name, !.pc = "compile", !.call = ep.call + 1,
              !.setups = ep.setups, !.entrySetups = ep.setups,
              !.proofs = ep.proofs \cup (IF ep.result = "proof" THEN {ep.proof} ELSE {}),
              !.keys = ep.keys \cup (IF ep.result = "keys" THEN {ep.pk} ELSE {})]
  /\ pc' = "alloc"
  /\ i' = 0
  /\ g' = 0
  /\ r1cs' = NewR1CS
  /\ allVariableIndices' = <<>>
  /\ publicVariables' = <<>>
  /\ privateVariables' = <<>>
  /\ nPublicVariables' = 0
  /\ nPrivateVariables' = 0
  /\ ONE' = NoHandle
  /\ ZERO' = NoHandle
  /\ panicAt' = NoPanic
  /\ asm' = [w \in Assemblies |-> IdleAssembly]
  /\ UNCHANGED <<build, r, m>>

Entry ==
  \/ EntryPanic \/ EntryReadProof \/ EntryReadKey \/ EntrySetup
  \/ EntryProve \/ EntryWriteProof \/ EntryWriteKeys \/ EntryPublic \/ EntryVerify

\* --------------------------------------------------------- specifications
InitCompile ==
  /\ pc = "alloc"
  /\ i = 0
  /\ g = 0
  /\ r1cs = NewR1CS
  /\ allVariableIndices = <<>>
  /\ publicVariables = <<>>
  /\ privateVariables = <<>>
  /\ nPublicVariables = 0
  /\ nPrivateVariables = 0
  /\ ONE = NoHandle
  /\ ZERO = NoHandle
  /\ panicAt = NoPanic

\* buildR1CS is entered by a build of B on a circuit of C.
InitOn(B, C) ==
  /\ build \in B
  /\ r \in C
  /\ InitCompile
  /\ asm = [w \in Assemblies |-> IdleAssembly]
  /\ m = InitMain
  /\ ep = IdleEntry

Init == InitOn(Builds, RawR1CS)

Next == BuildR1CS

Spec == Init /\ [][Next]_vars

\* The gate loop reads the values and the public inputs only through the lengths of
\* r.Values and of the table, so here every length of both is drawn with a single
\* content, and the gate lists are longer than under Spec: up to MaxGates + 1 gates
\* of at most one term, or one gate of up to MaxTerms terms of each kind.
SimpleGate ==
  {gt \in [mulTerms : SeqsUpTo(MulTerm, 1), addTerms : SeqsUpTo(AddTerm, 1), constantTerm : {0}] :
     Len(gt.mulTerms) + Len(gt.addTerms) <= 1}

GateLists == SeqsUpTo(SimpleGate, MaxGates + 1) \cup {<<gt>> : gt \in RawGate}

GateInit ==
  InitOn(Builds,
         [gates : GateLists,
          publicInputs : {[k \in 1..n |-> 1] : n \in 0..MaxPublicInputs},
          values : {[k \in 1..n |-> 0] : n \in 0..MaxValues},
          numConstraints : {11}])

GateSpec == GateInit /\ [][Next]_vars

\* buildWitnesses called twice on the output of one buildR1CS call.  Gate
\* processing leaves the vectors alone, so the circuits here carry no gates.
WitnessInit == InitOn(Builds, Circuits({<<>>}, {0}))

WitnessNext == AllocValue \/ BeginGates \/ Return \/ \E w \in Assemblies : BuildWitnesses(w)

WitnessSpec == WitnessInit /\ [][WitnessNext]_vars

\* The Go scheduler keeps running a goroutine that can take a step: the producer
\* and the caller inside witness.Fill of every call.
WitnessFairSpec == WitnessSpec /\ \A w \in Assemblies : WF_vars(BuildWitnesses(w))

\* buildR1CS on gates whose coefficients and constants vary, then buildWitnesses.
\* The gate loop reads values and public inputs through lengths only, so every
\* length of both is drawn with a single content; -1 stands for the field's p - 1.
\* The gate lists: up to MaxGates + 1 gates of at most one term over the first
\* value, or one gate of up to MaxTerms terms of each kind.
TermCoefficients == {1, -1}
TermMulTerm == [coefficient : TermCoefficients, multiplicand : {0}, multiplier : {0}]
TermAddTerm == [coefficient : TermCoefficients, sum : Indices]
TermGate ==
  [mulTerms : SeqsUpTo(TermMulTerm, MaxTerms), addTerms : SeqsUpTo(TermAddTerm, MaxTerms),
   constantTerm : Felt]
SmallTermGate ==
  {gt \in [mulTerms : SeqsUpTo(TermMulTerm, 1),
           addTerms : SeqsUpTo([coefficient : TermCoefficients, sum : {0}], 1),
           constantTerm : Felt] :
     Len(gt.mulTerms) + Len(gt.addTerms) <= 1}

TermGateLists == SeqsUpTo(SmallTermGate, MaxGates + 1) \cup {<<gt>> : gt \in TermGate}

TermInit ==
  InitOn(Builds,
         [gates : TermGateLists,
          publicInputs : {[k \in 1..n |-> 1] : n \in 0..MaxPublicInputs},
          values : {[k \in 1..n |-> 0] : n \in 0..MaxValues},
          numConstraints : {11}])

TermNext == BuildR1CS \/ BuildWitnesses(1)

TermSpec == TermInit /\ [][TermNext]_vars

\* main of gnark_backend_ffi/main.go: compile, assemble, Setup, Prove, Verify, then
\* the same proof against the public witness of the circuit with other values.
\* The gate lists main is run on: none, or one gate of a single AddTerm.
MainGateLists ==
  {<<>>} \cup {<<[mulTerms |-> <<>>, addTerms |-> <<t>>, constantTerm |-> c]>> :
                 t \in AddTerm, c \in Felt}

MainInit ==
  /\ build = "gnark_backend_ffi"
  /\ r \in Circuits(MainGateLists, {11})
  /\ InitCompile
  /\ asm = [w \in Assemblies |-> IdleAssembly]
  /\ m = [InitMain EXCEPT !.pc = "run"]
  /\ ep = IdleEntry

MainNext == BuildR1CS \/ BuildWitnesses(1) \/ Main

MainSpec == MainInit /\ [][MainNext]_vars

\* One call of an exported entry point, its rawR1CS decoded: buildR1CS, then (but
\* in Preprocess) buildWitnesses, then the backend calls of that entry point.  The
\* gate lists: none, or one gate of an AddTerm of the first or of no value.
EntryGateLists ==
  {<<>>} \cup {<<[mulTerms |-> <<>>,
                  addTerms |-> <<[coefficient |-> 1, sum |-> s]>>,
                  constantTerm |-> 0]>> : s \in {0, MaxValues}}

EntryInit ==
  /\ build \in Builds
  /\ r \in Circuits(EntryGateLists, {11})
  /\ InitCompile
  /\ asm = [w \in Assemblies |-> IdleAssembly]
  /\ m = InitMain
  /\ \E name \in EntryPoints : ep = EnteredEntry(name)

EntryNext == BuildR1CS \/ (ep.name # "Preprocess" /\ BuildWitnesses(1)) \/ Entry

EntrySpec == EntryInit /\ [][EntryNext]_vars

\* A sequence of up to MaxCalls calls of entry points on one circuit, by a caller
\* who starts with no key and no proof and holds what the calls so far returned.
\* publicInputs is drawn by its length, every entry the first position.
SessionInit ==
  /\ build \in Builds
  /\ r \in [gates : EntryGateLists,
            publicInputs : {[k \in 1..n |-> 1] : n \in 0..MaxPublicInputs},
            values : SeqsUpTo(Felt, MaxValues),
            numConstraints : {11}]
  /\ InitCompile
  /\ asm = [w \in Assemblies |-> IdleAssembly]
  /\ m = InitMain
  /\ \E name \in EntryPoints :
       ep = [IdleEntry EXCEPT !.name = name, !.pc = "compile", !.call = 1]

SessionNext == EntryNext \/ \E name \in EntryPoints : NextCall(name)

SessionSpec == SessionInit /\ [][SessionNext]_vars

\* The circuit of the boundary example: seven values, one public input at position
\* 2, the four gates of the literal in main (-1 stands for the field's p - 1), and
\* beside it the six values that literal really carries.
ExampleGates ==
  << [mulTerms |-> <<>>,
      addTerms |-> << [coefficient |-> 1, sum |-> 1], [coefficient |-> -1, sum |-> 2],
                      [coefficient |-> -1, sum |-> 3] >>,
      constantTerm |-> 0],
     [mulTerms |-> << [coefficient |-> 1, multiplicand |-> 3, multiplier |-> 4] >>,
      addTerms |-> << [coefficient |-> -1, sum |-> 5] >>,
      constantTerm |-> 0],
     [mulTerms |-> << [coefficient |-> 1, multiplicand |-> 3, multiplier |-> 5] >>,
      addTerms |-> << [coefficient |-> -1, sum |-> 3] >>,
      constantTerm |-> 0],
     [mulTerms |-> <<>>,
      addTerms |-> << [coefficient |-> -1, sum |-> 5] >>,
      constantTerm |-> 1] >>

BoundaryValues == <<6, 1, 2, 0, 0, 0, 0>>
LiteralValues == <<1, 2, 0, 0, 0, 0>>

ExampleInit ==
  InitOn(Builds, [gates : {ExampleGates}, publicInputs : {<<2>>},
                  values : {BoundaryValues, LiteralValues}, numConstraints : {11}])

ExampleNext == BuildR1CS \/ \E w \in Assemblies : BuildWitnesses(w)

ExampleSpec == ExampleInit /\ [][ExampleNext]_vars

\* ------------------------------------------------- vocabulary of the claims
AllocationDone == pc # "alloc"

\* The positions of values that publicInputs lists.
PublicPositions(raw) ==
  {p \in 1..Len(raw.values) : \E j \in 1..Len(raw.publicInputs) : raw.publicInputs[j] = p}

\* main's second circuit differs from its first at a position publicInputs lists.
TamperedAtPublicPosition ==
  \E p \in PublicPositions(r) : m.validValues[p] # r.values[p]

\* The values at the positions of P, in the order of values, from position k on.
RECURSIVE SelectPositions(_, _, _)
SelectPositions(values, P, k) ==
  IF k > Len(values) THEN <<>>
  ELSE (IF k \in P THEN <<values[k]>> ELSE <<>>) \o SelectPositions(values, P, k + 1)

BadMulTerm(raw, t) ==
  t.multiplicand > Len(raw.values) - 1 \/ t.multiplier > Len(raw.values) - 1
BadAddTerm(raw, t) == t.sum > Len(raw.values) - 1

BadMulGates(raw) ==
  {k \in 1..Len(raw.gates) :
     \E n \in 1..Len(raw.gates[k].mulTerms) : BadMulTerm(raw, raw.gates[k].mulTerms[n])}
BadAddGates(raw) ==
  {k \in 1..Len(raw.gates) :
     \E n \in 1..Len(raw.gates[k].addTerms) : BadAddTerm(raw, raw.gates[k].addTerms[n])}

Min(S) == CHOOSE x \in S : \A y \in S : x <= y

IndicesInRange(raw) == BadMulGates(raw) = {} /\ BadAddGates(raw) = {}

RECURSIVE MulSum(_, _, _)
MulSum(values, mulTerms, k) ==
  IF k > Len(mulTerms) THEN 0
  ELSE mulTerms[k].coefficient * values[mulTerms[k].multiplicand + 1]
         * values[mulTerms[k].multiplier + 1]
       + MulSum(values, mulTerms, k + 1)

RECURSIVE AddSum(_, _, _)
AddSum(values, addTerms, k) ==
  IF k > Len(addTerms) THEN 0
  ELSE addTerms[k].coefficient * values[addTerms[k].sum + 1] + AddSum(values, addTerms, k + 1)

\* The values satisfy every gate: its products and sums and its constant add up to zero.
Satisfiable(raw) ==
  /\ IndicesInRange(raw)
  /\ \A k \in 1..Len(raw.gates) :
       (MulSum(raw.values, raw.gates[k].mulTerms, 1)
          + AddSum(raw.values, raw.gates[k].addTerms, 1)
          + raw.gates[k].constantTerm) % Modulus = 0

\* ------------------------------------------------------------------ claims

\* C1 (as claimed): after the allocation loop the table has exactly len(values)
\* entries and table[i] is a public allocation iff i+1 is in publicInputs.
C1_IndexBijection ==
  AllocationDone =>
    /\ Len(allVariableIndices) = Len(r.values)
    /\ \A p \in 1..Len(r.values) :
         allVariableIndices[p].kind = "public" <=> p \in PublicPositions(r)

\* C2 (as claimed): the returned vectors partition values: the counts add up to
\* len(values), PublicVariables holds the values at the public positions and
\* PrivateVariables all the others, each once and in the order of values.
C2_PartitionCompleteness ==
  pc = "returned" =>
    /\ Len(publicVariables) + Len(privateVariables) = Len(r.values)
    /\ nPublicVariables + nPrivateVariables = Len(r.values)
    /\ publicVariables = SelectPositions(r.values, PublicPositions(r), 1)
    /\ privateVariables =
         SelectPositions(r.values, (1..Len(r.values)) \ PublicPositions(r), 1)

\* C3: under every interleaving of the producer goroutine and witness.Fill, what
\* the consumer has received is a prefix of publicVariables followed by
\* privateVariables, the channel is closed only after the last value, and the
\* finished witness holds exactly that sequence, its first nPublic entries being
\* the public vector and the next nPrivate the private one.
C3_WitnessOrder ==
  \A w \in Assemblies :
    LET all == publicVariables \o privateVariables
        a == asm[w]
    IN /\ Len(a.received) = a.sent
       /\ a.sent <= Len(all)
       /\ a.received = SubSeq(all, 1, a.sent)
       /\ a.closed => a.sent = Len(all)
       /\ a.state = "done" =>
            /\ a.witness.vector = all
            /\ a.witness.nbPublic = nPublicVariables
            /\ a.witness.nbSecret = nPrivateVariables
            /\ Public(a.witness) = publicVariables
            /\ Secret(a.witness) = privateVariables

\* C3 witness: a handoff has finished for vectors whose order matters.
C3_Witness ==
  \E w \in Assemblies :
    /\ asm[w].state = "done"
    /\ Len(publicVariables) >= 1
    /\ Len(privateVariables) >= 1
    /\ publicVariables \o privateVariables # privateVariables \o publicVariables

\* C4 (as claimed): for a satisfiable circuit, compile, assemble, Setup, Prove and
\* Verify with the keys of that Setup and the public part of that witness end in
\* a successful verification.
C4_RoundTrip ==
  (m.pc \in {"run", "setup", "prove", "verify", "tamper"} /\ Satisfiable(r)) =>
    /\ pc # "panicked"
    /\ m.pc = "tamper" => m.verified

\* C5: when the circuit verified second has the gates and public inputs of the
\* first and another value at some public position, its public sub-witness differs
\* from the first one's and Verify of the first proof against it fails.
C5_TamperDetection ==
  /\ (m.pc = "invalidVerify" /\ TamperedAtPublicPosition) =>
       m.invalidPublicWitnesses # m.publicWitnesses
  /\ (m.pc = "done" /\ TamperedAtPublicPosition) =>
       /\ m.invalidPublicWitnesses # m.publicWitnesses
       /\ m.invalidVerified = FALSE

\* C5 witness: a proof that verified was then checked against the public
\* sub-witness of a circuit tampered with at a public position.
C5_Witness ==
  /\ m.pc = "done"
  /\ m.verified
  /\ TamperedAtPublicPosition
  /\ ~m.invalidVerified

\* C6: with a MulTerm whose multiplicand or multiplier is beyond len(values)-1,
\* buildR1CS never returns and never emits a constraint for that gate; it stops on
\* an index panic no later than that gate, and when it stops in that gate it stops
\* at a values lookup of a MulTerm.
C6_MulIndexRejected ==
  BadMulGates(r) # {} =>
    LET bad == Min(BadMulGates(r))
    IN /\ pc # "returned"
       /\ g < bad
       /\ Len(r1cs.Constraints) < bad
       /\ ~(pc = "gates" /\ g = Len(r.gates))
       /\ pc = "panicked" =>
            /\ panicAt.gate <= bad
            /\ Len(r1cs.Constraints) = panicAt.gate - 1
            /\ panicAt.gate = bad =>
                 /\ panicAt.at \in {"r.Values[mul_term.Multiplicand]",
                                    "r.Values[mul_term.Multiplier]"}
                 /\ BadMulTerm(r, r.gates[bad].mulTerms[panicAt.term])
                 /\ \A n \in 1..(panicAt.term - 1) :
                      ~BadMulTerm(r, r.gates[bad].mulTerms[n])

\* C6 witness: buildR1CS stopped at an out-of-range multiplier.
C6_Witness ==
  /\ pc = "panicked"
  /\ panicAt.at = "r.Values[mul_term.Multiplier]"
  /\ BadMulTerm(r, r.gates[panicAt.gate].mulTerms[panicAt.term])

\* C7 (as claimed): with an AddTerm whose sum is beyond len(values)-1, buildR1CS
\* is stopped by an index panic: it never returns a constraint system.
C7_AddIndexRejected == BadAddGates(r) # {} => pc # "returned"

\* C8 (as claimed): for the seven values <<6, 1, 2, 0, 0, 0, 0>> with public input
\* {2} and the four gates, buildR1CS counts 2 public and 5 secret input variables.
C8_BoundaryCountsAsClaimed ==
  (pc = "returned" /\ r.values = BoundaryValues) =>
    nPublicVariables = 2 /\ nPrivateVariables = 5

\* C8 (amended): for that circuit buildR1CS counts 1 public input variable, the
\* one of position 2, and 6 secret ones, beside the constant-1 public variable.
C8_BoundaryCounts ==
  (pc = "returned" /\ r.values = BoundaryValues) =>
    /\ nPublicVariables = 1
    /\ nPrivateVariables = 6
    /\ publicVariables = <<1>>
    /\ privateVariables = <<6, 2, 0, 0, 0, 0>>
    /\ Len(r1cs.Public) = 2
    /\ Len(r1cs.Secret) = 6
    /\ ONE = [kind |-> "public", idx |-> 2]

\* C8 witness: buildR1CS returned for the boundary circuit.
C8_Witness == pc = "returned" /\ r.values = BoundaryValues /\ Len(r.gates) = 4

\* C9 (as claimed): with every index in range buildR1CS returns a system of
\* exactly len(gates) constraints, the k-th made from the k-th gate, whatever
\* numConstraints says.
C9_OneConstraintPerGate ==
  IndicesInRange(r) =>
    /\ pc # "panicked"
    /\ Len(r1cs.Constraints) = g
    /\ pc = "returned" =>
         /\ Len(r1cs.Constraints) = Len(r.gates)
         /\ \A k \in 1..Len(r.gates) :
              Len(r1cs.Constraints[k].R)
                = Len(r.gates[k].mulTerms) + Len(r.gates[k].addTerms)

\* C10: two calls of buildWitnesses on the output of one buildR1CS call give
\* witnesses with the same public and the same secret sub-vector, however the two
\* producers and consumers were scheduled.
C10_WitnessStable ==
  (asm[1].state = "done" /\ asm[2].state = "done") =>
    /\ asm[1].witness = asm[2].witness
    /\ Public(asm[1].witness) = Public(asm[2].witness)
    /\ Secret(asm[1].witness) = Secret(asm[2].witness)

\* C10 witness: both calls have returned, for vectors whose order matters.
C10_Witness ==
  /\ asm[1].state = "done"
  /\ asm[2].state = "done"
  /\ Len(asm[1].witness.vector) >= 2
  /\ publicVariables \o privateVariables # privateVariables \o publicVariables

\* ------------------------------------------ vocabulary of the entry-point claims
CallCount(call) == Cardinality({k \in 1..Len(ep.calls) : ep.calls[k] = call})

\* Every call of first in the entry point's history precedes every call of second.
CallsBefore(first, second) ==
  \A k, j \in 1..Len(ep.calls) :
    (ep.calls[k] = first /\ ep.calls[j] \in second) => k < j

\* The argument is not what the revision's decoding reads: nothing the backend can
\* read, or not in the revision's text encoding.
Undecodable(b, arg) ==
  \/ ~arg.valid
  \/ arg.enc # (IF b = "part_000" THEN "hex" ELSE "raw")

\* The value vectors that agree with values at every position of P.
AgreeingAt(values, P) ==
  {v \in [1..Len(values) -> Felt] : \A p \in P : v[p] = values[p]}

\* C11: the public sub-witness a verifying entry point hands to Verify is the first
\* nPublic entries of the witness, equals PublicVariables, holds only values of
\* positions publicInputs lists, and is the one of every circuit that differs from
\* this one only in values at the other positions.
C11_PublicSubWitness ==
  (ep.name \in Verifiers /\ ep.pc \in {"verify", "returned"}) =>
    /\ ep.publicInputs = SubSeq(asm[1].witness.vector, 1, nPublicVariables)
    /\ ep.publicInputs = publicVariables
    /\ \A k \in 1..Len(ep.publicInputs) :
         \E p \in PublicPositions(r) : ep.publicInputs[k] = r.values[p]
    /\ PublicPositions(r) = {} => ep.publicInputs = <<>>
    /\ \A v \in AgreeingAt(r.values, PublicPositions(r)) :
         AllocLoop(build, [r EXCEPT !.values = v], EmptyAllocState, 0).pub = ep.publicInputs

\* C11 witness: Verify was handed a non-empty public sub-witness of a circuit that
\* also has a value at a position publicInputs does not list.
C11_Witness ==
  /\ ep.name \in Verifiers
  /\ ep.pc = "returned"
  /\ Len(ep.publicInputs) >= 1
  /\ \E p \in 1..Len(r.values) : p \notin PublicPositions(r) /\ r.values[p] = 1

\* C12: ProveWithPK and VerifyWithVK never call Setup and use the key they were
\* given; ProveWithMeta, VerifyWithMeta and Preprocess call Setup at most once, once
\* when they return, after buildR1CS returned and before every Prove, Verify and
\* serialization; Preprocess calls neither buildWitnesses nor Prove nor Verify.
C12_KeySourcing ==
  /\ ep.name \in {"ProveWithPK", "VerifyWithVK"} =>
       /\ CallCount("Setup") = 0
       /\ ep.setups = Cardinality(EarlierKeys)
       /\ ep.pc = "returned" =>
            /\ CallCount("ReadKey") = 1
            /\ ep.name = "ProveWithPK" => ep.pk = ep.keyArg.val /\ ep.proof.key = ep.keyArg.val.id
            /\ ep.name = "VerifyWithVK" => ep.vk = ep.keyArg.val
  /\ ep.name \in {"ProveWithMeta", "VerifyWithMeta", "Preprocess"} =>
       /\ CallCount("Setup") <= 1
       /\ CallCount("ReadKey") = 0
       /\ ep.pc = "returned" => CallCount("Setup") = 1
       /\ CallCount("Setup") = 1 => pc = "returned"
       /\ CallsBefore("Setup", {"Prove", "Verify", "WriteProof", "WriteKeys"})
       /\ (CallCount("Prove") + CallCount("Verify") + CallCount("WriteKeys") >= 1) =>
            CallCount("Setup") = 1
  /\ ep.name = "Preprocess" =>
       /\ asm[1] = IdleAssembly
       /\ CallCount("Prove") + CallCount("Verify") = 0
       /\ ep.pc = "returned" => ep.calls = <<"Setup", "WriteKeys">>

\* C12 witness: VerifyWithMeta returned, its one Setup made after buildR1CS and
\* before Verify.
C12_Witness ==
  /\ ep.name = "VerifyWithMeta"
  /\ ep.pc = "returned"
  /\ ep.calls = <<"ReadProof", "Setup", "Public", "Verify">>

\* C13: VerifyWithMeta and VerifyWithVK return false exactly when the proof (and
\* the key) decoded and Verify rejected, and they return then; with a proof or key
\* that does not decode they abort and return nothing.
C13_VerifyOutcome ==
  ep.name \in Verifiers =>
    /\ (CallCount("Verify") = 1 /\ ~Verify(ep.proof, ep.vk, ep.publicInputs)) =>
         ep.pc = "returned" /\ ep.result = "false"
    /\ ep.result = "false" =>
         /\ ep.pc = "returned"
         /\ ~Undecodable(build, ep.proofArg)
         /\ ep.name = "VerifyWithVK" => ~Undecodable(build, ep.keyArg)
         /\ ~Verify(ep.proof, ep.vk, ep.publicInputs)
    /\ (CallCount("ReadProof") = 1 /\ Undecodable(build, ep.proofArg)) =>
         ep.pc = "aborted" /\ ep.result = "none" /\ CallCount("Verify") = 0
    /\ (CallCount("ReadKey") = 1 /\ Undecodable(build, ep.keyArg)) =>
         ep.pc = "aborted" /\ ep.result = "none" /\ CallCount("Verify") = 0

\* C13 witness: VerifyWithVK decoded its proof and its key and returned false.
C13_Witness ==
  /\ ep.name = "VerifyWithVK"
  /\ ep.pc = "returned"
  /\ ep.result = "false"
  /\ ep.proofArg.valid
  /\ ep.keyArg.valid

\* ------------------------------------------- vocabulary of the gate claims
\* The name a variable handle was allocated under, and the 0-based index of the
\* value an input variable was named for ("public_<i+1>" / "secret_<i+1>" in
\* part_000, "<i>" in gnark_backend_ffi/main.go).
HandleName(cs, h) == IF h.kind = "public" THEN cs.Public[h.idx] ELSE cs.Secret[h.idx]
NamedForValue(b, name) == IF b = "part_000" THEN name[2] - 1 ELSE name[2]

\* The terms of a constraint, and the places (constraint, term) where handle h occurs.
AllTerms(c) == c.L \o c.R \o c.O
Occurrences(cs, h) ==
  {<<k, n>> \in (1..Len(cs.Constraints)) \X (1..(2 * MaxTerms + 2)) :
     n <= Len(AllTerms(cs.Constraints[k])) /\ AllTerms(cs.Constraints[k])[n].var = h}

RECURSIVE TotalMulTerms(_, _)
TotalMulTerms(gates, k) ==
  IF k > Len(gates) THEN 0 ELSE Len(gates[k].mulTerms) + TotalMulTerms(gates, k + 1)

IsPrefix(s, t) == Len(s) <= Len(t) /\ SubSeq(t, 1, Len(s)) = s

\* The circuits that differ from raw in the constantTerm of gates at most.
ConstantVariants(raw) ==
  {[raw EXCEPT !.gates = [k \in 1..Len(raw.gates) |->
                            [raw.gates[k] EXCEPT !.constantTerm = c[k]]]] :
     c \in [1..Len(raw.gates) -> Felt]}

\* A step that leaves the table, the vectors, the counts, the circuit and the input
\* variables of the system alone: it adds internal variables and appends
\* constraints at most, and nothing once buildR1CS is over.
FrozenStep ==
  /\ UNCHANGED <<allVariableIndices, publicVariables, privateVariables,
                 nPublicVariables, nPrivateVariables, r, ONE, ZERO>>
  /\ r1cs'.Public = r1cs.Public
  /\ r1cs'.Secret = r1cs.Secret
  /\ r1cs'.NbInternalVariables >= r1cs.NbInternalVariables
  /\ IsPrefix(r1cs.Constraints, r1cs'.Constraints)
  /\ pc \in {"returned", "panicked"} => UNCHANGED <<r1cs, pc>>

\* C14 (as claimed): in every emitted constraint the term of an AddTerm whose sum
\* is within values is its coefficient times the variable allocated for
\* values[sum], a public variable iff sum+1 is in publicInputs.
C14_AddTermResolution ==
  \A k \in 1..Len(r1cs.Constraints) :
    \A n \in 1..Len(r.gates[k].addTerms) :
      LET t == r.gates[k].addTerms[n]
          term == r1cs.Constraints[k].R[Len(r.gates[k].mulTerms) + n]
      IN t.sum < Len(r.values) =>
           /\ term.coeff = t.coefficient
           /\ term.var.kind \in {"public", "secret"}
           /\ NamedForValue(build, HandleName(r1cs, term.var)) = t.sum
           /\ term.var.kind = "public" <=> (t.sum + 1) \in PublicPositions(r)

\* C15: the R of every emitted constraint has one term per MulTerm, in order, and
\* then one per AddTerm, in order; a MulTerm's term carries its coefficient over an
\* internal variable that is neither ONE nor ZERO nor an input variable and occurs
\* at that one place of the whole system; an AddTerm's term carries its coefficient
\* over the table entry of its sum.
C15_GateExpression ==
  \A k \in 1..Len(r1cs.Constraints) :
    LET gate == r.gates[k]
        c == r1cs.Constraints[k]
        nm == Len(gate.mulTerms)
    IN /\ Len(c.R) = nm + Len(gate.addTerms)
       /\ \A n \in 1..nm :
            /\ c.R[n].coeff = gate.mulTerms[n].coefficient
            /\ c.R[n].var.kind = "internal"
            /\ c.R[n].var.idx \in 1..r1cs.NbInternalVariables
            /\ c.R[n].var # ONE
            /\ c.R[n].var # ZERO
            /\ Occurrences(r1cs, c.R[n].var) = {<<k, Len(c.L) + n>>}
       /\ \A n \in 1..Len(gate.addTerms) :
            /\ c.R[nm + n].coeff = gate.addTerms[n].coefficient
            /\ c.R[nm + n].var = allVariableIndices[gate.addTerms[n].sum + 1]

\* C15 witness: two constraints were emitted, each with the term of a MulTerm, one
\* of them with a coefficient other than 1.
C15_Witness ==
  /\ pc = "returned"
  /\ Len(r1cs.Constraints) = 2
  /\ \A k \in 1..2 : Len(r.gates[k].mulTerms) = 1
  /\ r.gates[2].mulTerms[1].coefficient = -1

\* C16 (as claimed): every emitted constraint has L = 1*ONE, ONE being one public
\* variable, and an O without terms.
C16_ConstraintShape ==
  \A k \in 1..Len(r1cs.Constraints) :
    /\ r1cs.Constraints[k].L = <<[coeff |-> 1, var |-> ONE]>>
    /\ ONE.kind = "public"
    /\ r1cs.Constraints[k].O = <<>>

\* C17 (as claimed): a returned system holds nPublic + 1 public variables, ONE the
\* last of them, nPrivate secret variables and one internal variable per MulTerm.
C17_VariableCensus ==
  pc = "returned" =>
    /\ Len(r1cs.Public) = nPublicVariables + 1
    /\ ONE = [kind |-> "public", idx |-> nPublicVariables + 1]
    /\ Len(r1cs.Secret) = nPrivateVariables
    /\ r1cs.NbInternalVariables = TotalMulTerms(r.gates, 1)

\* C18: what buildR1CS leaves (constraint system, partition vectors, counts, and a
\* panic if any) is what it leaves for every circuit that differs only in
\* constantTerm fields.
C18_ConstantTermIgnored ==
  pc \in {"returned", "panicked"} =>
    \A raw \in ConstantVariants(r) :
      BuildR1CSOf(build, raw) =
        [cs |-> r1cs, pub |-> publicVariables, priv |-> privateVariables,
         nPub |-> nPublicVariables, nPriv |-> nPrivateVariables, panic |-> panicAt]

\* C18 witness: buildR1CS returned two constraints for gates with different
\* constantTerm fields.
C18_Witness ==
  /\ pc = "returned"
  /\ Len(r1cs.Constraints) = 2
  /\ r.gates[1].constantTerm # r.gates[2].constantTerm
  /\ Len(r1cs.Constraints[1].R) = 1

\* C19: once buildWitnesses is called, the producer eventually has sent every
\* value and closed the channel and the consumer has finished with exactly
\* nPublic + nPrivate values.
C19_HandoffTerminates ==
  \A w \in Assemblies :
    (asm[w].state = "running") ~>
      (/\ asm[w].state = "done"
       /\ asm[w].closed
       /\ asm[w].sent = Len(publicVariables) + Len(privateVariables)
       /\ Len(asm[w].witness.vector) = nPublicVariables + nPrivateVariables)

\* C19 witness: the second call finished a handoff of several values.
C19_Witness ==
  /\ asm[2].state = "done"
  /\ asm[2].closed
  /\ asm[2].sent >= 2
  /\ Len(asm[2].received) = asm[2].sent

\* C20: once the allocation phase is over, no step of buildR1CS or buildWitnesses
\* changes the table, the partition vectors, the counts, the circuit, ONE or the
\* public and secret variables of the system; gate processing only adds internal
\* variables and appends constraints, buildWitnesses leaves the system as it is.
C20_TableFrozen == [][AllocationDone => FrozenStep]_vars

\* C20 witness: gates with a MulTerm were processed over a table of several
\* entries and a witness was assembled afterwards.
C20_Witness ==
  /\ pc = "returned"
  /\ asm[1].state = "done"
  /\ Len(allVariableIndices) >= 2
  /\ r1cs.NbInternalVariables >= 2
  /\ Len(r1cs.Constraints) >= 1

\* --------------------------------------- vocabulary of the allocation claims
\* seq without its p-th element.
Without(seq, p) == SubSeq(seq, 1, p - 1) \o SubSeq(seq, p + 1, Len(seq))

\* C21: the allocation loop allocates one variable per (value, publicInputs entry)
\* pair: after i values the table, the two vectors together and the two counts
\* together all number i * len(publicInputs), after the loop
\* len(values) * len(publicInputs); with no publicInputs entry nothing is
\* allocated and both vectors are empty.
C21_AllocationCount ==
  LET done == IF AllocationDone THEN Len(r.values) ELSE i
      n == done * Len(r.publicInputs)
  IN /\ Len(allVariableIndices) = n
     /\ nPublicVariables + nPrivateVariables = n
     /\ Len(publicVariables) + Len(privateVariables) = n
     /\ nPublicVariables = Len(publicVariables)
     /\ nPrivateVariables = Len(privateVariables)
     /\ Len(r1cs.Public) + Len(r1cs.Secret) = n + (IF AllocationDone THEN 1 ELSE 0)
     /\ r.publicInputs = <<>> =>
          /\ allVariableIndices = <<>>
          /\ publicVariables = <<>>
          /\ privateVariables = <<>>
          /\ r1cs.Secret = <<>>

\* C21 witness: the loop is over for two values and two publicInputs entries, four
\* variables allocated.
C21_Witness ==
  /\ pc = "returned"
  /\ Len(r.values) = 2
  /\ Len(r.publicInputs) = 2
  /\ Len(allVariableIndices) = 4

\* C22: with exactly one publicInputs entry p the allocation loop allocates one
\* variable per value, table[i] public iff i+1 = p; PublicVariables is
\* <<values[p-1]>> when p is a position of values and empty otherwise, and
\* PrivateVariables is values without that element, in order.
C22_SinglePublicInput ==
  (AllocationDone /\ Len(r.publicInputs) = 1) =>
    LET p == r.publicInputs[1]
    IN /\ Len(allVariableIndices) = Len(r.values)
       /\ \A k \in 1..Len(r.values) :
            /\ allVariableIndices[k].kind = (IF k = p THEN "public" ELSE "secret")
            /\ NamedForValue(build, HandleName(r1cs, allVariableIndices[k])) = k - 1
       /\ publicVariables = (IF p \in 1..Len(r.values) THEN <<r.values[p]>> ELSE <<>>)
       /\ privateVariables = (IF p \in 1..Len(r.values) THEN Without(r.values, p) ELSE r.values)
       /\ nPublicVariables = Len(publicVariables)
       /\ nPrivateVariables = Len(privateVariables)

\* C22 witness: the one public input is the first of two different values.
C22_Witness ==
  /\ pc = "returned"
  /\ r.publicInputs = <<1>>
  /\ r.values = <<1, 0>>
  /\ publicVariables = <<1>>

\* C23: in every sequence of calls, the verifying key VerifyWithMeta hands to
\* Verify is the one of the Setup invocation this call made, after it read the
\* proof, so never the one of the invocation whose proving key made the proof; the
\* proving key ProveWithMeta proves with is the one of the Setup invocation that
\* call made, a key the caller never held.
C23_ThrowawayKeys ==
  /\ (ep.name = "VerifyWithMeta" /\ ep.pc \in {"public", "verify", "returned"}) =>
       /\ ep.setups = ep.entrySetups + 1
       /\ ep.vk = Setup(ep.setups).vk
       /\ ep.vk.id > ep.entrySetups
       /\ ep.vk \notin ep.keys
       /\ SubSeq(ep.calls, 1, 2) = <<"ReadProof", "Setup">>
       /\ ep.proof = ep.proofArg.val
       /\ ep.proof.key <= ep.entrySetups
       /\ ep.proof.key # ep.vk.id
  /\ (ep.name = "ProveWithMeta" /\ ep.pc \in {"prove", "writeProof", "returned"}) =>
       /\ ep.setups = ep.entrySetups + 1
       /\ ep.pk = Setup(ep.setups).pk
       /\ ep.pk \notin ep.keys
       /\ ep.pc # "prove" => ep.proof.key = ep.pk.id

\* C23 witness: ProveWithMeta made a proof in an earlier call and VerifyWithMeta,
\* given that proof for the same public witness, has handed Verify its own key.
C23_Witness ==
  /\ ep.name = "VerifyWithMeta"
  /\ ep.pc = "returned"
  /\ ep.call >= 2
  /\ ep.proofArg.valid
  /\ ep.proof.public = ep.publicInputs
  /\ Len(ep.publicInputs) >= 1
  /\ ep.keys = {}

====
